---- MODULE Spec2Model ----
(***************************************************************************)
(* Model of payroll_system.py: EmployeeDatabase, TimeTracker and           *)
(* PayrollCalculator over one SQLite database file.                        *)
(*                                                                         *)
(* Representation                                                          *)
(*   - a string is a sequence of characters, so that str.strip() and the   *)
(*     byte-wise ORDER BY of SQLite are computed, not assumed;             *)
(*   - hourly_rate is held in cents per hour, hours in whole hours;        *)
(*   - an unrounded amount of money is held in units of 1/2000 cent, the   *)
(*     common denominator of the overtime multiplier 1.5 = 3/2 and of the  *)
(*     tax rates 0.056 and 0.079; a rounded amount is held in cents;       *)
(*   - entry_date is the day number of the date whose ISO text is stored.  *)
(***************************************************************************)
EXTENDS Integers, Sequences, FiniteSets, TLC

VARIABLES employees, time_entries, entry_seq, last, pc, reserved

vars == <<employees, time_entries, entry_seq, last, pc, reserved>>

(***************************************************************************)
(* Bounds and input sets                                                   *)
(***************************************************************************)
MaxEntries == 2

\* An Optional[...] argument: None is the empty set, a value v is {v}
None == {}

Some(v) == {v}

The(opt) == CHOOSE v \in opt : TRUE

\* Inputs of the employee-store specification Spec: every validation case
\* of add_employee and update_employee, and ids that differ only by whitespace.
IdInputs == { <<" ">>, <<"a">>, <<"b">>, <<" ", "b">> }

NameInputs == { <<" ">>, <<" ", "x">>, <<"y">> }

RateInputs == { -1, 0, 1000 }

DependentsInputs == { -1, 0, 1 }

HoursInputs == { -1, 50 }

\* Inputs of the time-and-pay specification SpecPay: valid employees with
\* rates of 10.00 and 18.25 per hour, and hours below zero, below, at and
\* above the overtime threshold.
PayIdInputs == { <<"a">>, <<"b">> }

PayNameInputs == { <<"x">> }

PayRateInputs == { 1000, 1825 }

PayHoursInputs == { -1, 0, 38, 40, 50 }

\* Inputs of the hour-summing specification SpecHours: recordings below the
\* overtime threshold whose totals (25 + 25, 38 + 5) exceed it.
SumHoursInputs == { 5, 25, 38 }

\* Inputs of the interleaving specification SpecRace: two ids as they are
\* stored and one that add_employee trims
RaceIdInputs == { <<"a">>, <<"b">>, <<" ", "b">> }

RaceRateInputs == { 1000 }

RaceHoursInputs == { 50 }

\* Inputs of the specification SpecDeps, in which the dependents vary
PayDependentsInputs == { 0, 1, 2 }

DepsHoursInputs == { 38 }

\* days on which hours are recorded
Dates == { 1 }

(***************************************************************************)
(* str.strip()                                                             *)
(***************************************************************************)
Whitespace == { " ", "\t", "\n" }

RECURSIVE LStrip(_)
LStrip(s) ==
    IF s = <<>> THEN s
    ELSE IF Head(s) \in Whitespace THEN LStrip(Tail(s)) ELSE s

RECURSIVE RStrip(_)
RStrip(s) ==
    IF s = <<>> THEN s
    ELSE IF s[Len(s)] \in Whitespace THEN RStrip(SubSeq(s, 1, Len(s) - 1)) ELSE s

\* variant: only trailing whitespace is removed
StripTrailingOnly(s) == RStrip(s)

Strip(s) == RStrip(LStrip(s))

(***************************************************************************)
(* SQLite's BINARY collation: byte-wise comparison of the stored text.     *)
(***************************************************************************)
CharCode(c) ==
    CASE c = "\t" -> 9
      [] c = "\n" -> 10
      [] c = " "  -> 32
      [] c = "a"  -> 97
      [] c = "b"  -> 98
      [] c = "x"  -> 120
      [] c = "y"  -> 121

RECURSIVE TextLess(_, _)
TextLess(s, t) ==
    IF t = <<>> THEN FALSE
    ELSE IF s = <<>> THEN TRUE
    ELSE IF CharCode(Head(s)) # CharCode(Head(t))
         THEN CharCode(Head(s)) < CharCode(Head(t))
         ELSE TextLess(Tail(s), Tail(t))

(***************************************************************************)
(* The schema of _create_tables and the connection's settings.             *)
(* sqlite3.connect() leaves PRAGMA foreign_keys at SQLite's default, off,  *)
(* and no method of the module turns it on: the FOREIGN KEY clause of      *)
(* time_entries is parsed and stored but not enforced.                     *)
(***************************************************************************)
ForeignKeys == FALSE

EmployeeRow(id, name, hourly_rate, dependents) ==
    [id |-> id, name |-> name, hourly_rate |-> hourly_rate, dependents |-> dependents]

TimeEntryRow(entry_id, employee_id, entry_date, regular_hours, overtime_hours) ==
    [entry_id |-> entry_id, employee_id |-> employee_id, entry_date |-> entry_date,
     regular_hours |-> regular_hours, overtime_hours |-> overtime_hours]

\* PRIMARY KEY and CHECK constraints of table employees
EmployeesConstraint(emps, row) ==
    /\ \A r \in emps : r.id # row.id
    /\ row.hourly_rate >= 0
    /\ row.dependents >= 0

\* CHECK and FOREIGN KEY constraints of table time_entries
TimeEntriesConstraint(emps, entries, row) ==
    /\ \A e \in entries : e.entry_id # row.entry_id
    /\ row.regular_hours >= 0
    /\ row.overtime_hours >= 0
    /\ ForeignKeys => \E r \in emps : r.id = row.employee_id

\* variant: the lookup never finds a row
SelectEmployeeNone(emps, employee_id) == None

\* variant: the WHERE clause is missing, fetchone() returns whichever row comes first
SelectEmployeeAnyRow(emps, employee_id) ==
    IF emps = {} THEN None ELSE Some(CHOOSE r \in emps : TRUE)

\* SELECT * FROM employees WHERE id = ? ; fetchone()
SelectEmployee(emps, employee_id) ==
    IF \E r \in emps : r.id = employee_id
    THEN Some(CHOOSE r \in emps : r.id = employee_id)
    ELSE None

\* variant: the WHERE clause is missing
DeleteFromEmployeesAll(emps, employee_id) == {}

\* DELETE FROM employees WHERE id = ?
DeleteFromEmployees(emps, employee_id) ==
    { r \in emps : r.id # employee_id }

\* ON DELETE CASCADE, applied only when foreign keys are enforced
CascadeTimeEntries(entries, employee_id) ==
    IF ForeignKeys
    THEN { e \in entries : e.employee_id # employee_id }
    ELSE entries

(***************************************************************************)
(* EmployeeDatabase.  Each method is an operator from the database and the *)
(* arguments to the outcome of the call and the committed tables.  The     *)
(* outcome names the error of the raise statement reached:                 *)
(*   ValidationError    ValueError("... cannot be empty" / "non-negative"  *)
(*                      / "cannot be negative" / "No updates provided")    *)
(*   DuplicateKeyError  ValueError("... already exists")                   *)
(*   ReferenceError     ValueError("... does not exist")                   *)
(*   NotFoundError      KeyError("... not found")                          *)
(*   IntegrityError     sqlite3.IntegrityError raised by the engine        *)
(***************************************************************************)
Outcome(outcome, emps, entries, seq) ==
    [outcome |-> outcome, employees |-> emps, time_entries |-> entries, entry_seq |-> seq]

AddEmployee(emps, entries, seq, employee_id, name, hourly_rate, dependents) ==
    LET eid == Strip(employee_id)
        nm  == Strip(name)
        row == EmployeeRow(eid, nm, hourly_rate, dependents)
    IN  IF eid = <<>> THEN Outcome("ValidationError", emps, entries, seq)
        ELSE IF nm = <<>> THEN Outcome("ValidationError", emps, entries, seq)
        ELSE IF hourly_rate < 0 THEN Outcome("ValidationError", emps, entries, seq)
        ELSE IF dependents < 0 THEN Outcome("ValidationError", emps, entries, seq)
        ELSE IF SelectEmployee(emps, eid) # None
             THEN Outcome("DuplicateKeyError", emps, entries, seq)
        ELSE IF ~EmployeesConstraint(emps, row)
             THEN Outcome("IntegrityError", emps, entries, seq)
        ELSE Outcome("ok", emps \cup {row}, entries, seq)

\* variant: the name is stored as given, not stripped
UpdatedRowUntrimmed(row, name, hourly_rate, dependents) ==
    EmployeeRow(row.id,
                IF name # None THEN The(name) ELSE row.name,
                IF hourly_rate # None THEN The(hourly_rate) ELSE row.hourly_rate,
                IF dependents # None THEN The(dependents) ELSE row.dependents)

\* variant: a column that is not supplied is reset to the default of the schema
UpdatedRowResetting(row, name, hourly_rate, dependents) ==
    EmployeeRow(row.id,
                IF name # None THEN Strip(The(name)) ELSE row.name,
                IF hourly_rate # None THEN The(hourly_rate) ELSE row.hourly_rate,
                IF dependents # None THEN The(dependents) ELSE 0)

\* the SET clause of the UPDATE: only the supplied columns change
UpdatedRow(row, name, hourly_rate, dependents) ==
    EmployeeRow(row.id,
                IF name # None THEN Strip(The(name)) ELSE row.name,
                IF hourly_rate # None THEN The(hourly_rate) ELSE row.hourly_rate,
                IF dependents # None THEN The(dependents) ELSE row.dependents)

\* variant: an invalid field is skipped and the valid ones are applied
UpdateEmployeeLenient(emps, entries, seq, employee_id, name, hourly_rate, dependents) ==
    LET nm == IF name # None /\ Strip(The(name)) = <<>> THEN None ELSE name
        rt == IF hourly_rate # None /\ The(hourly_rate) < 0 THEN None ELSE hourly_rate
        dp == IF dependents # None /\ The(dependents) < 0 THEN None ELSE dependents
    IN  IF SelectEmployee(emps, employee_id) = None
        THEN Outcome("NotFoundError", emps, entries, seq)
        ELSE IF nm = None /\ rt = None /\ dp = None
        THEN Outcome("ValidationError", emps, entries, seq)
        ELSE Outcome("ok",
                     { IF r.id = employee_id THEN UpdatedRow(r, nm, rt, dp) ELSE r : r \in emps },
                     entries, seq)

UpdateEmployee(emps, entries, seq, employee_id, name, hourly_rate, dependents) ==
    IF SelectEmployee(emps, employee_id) = None
    THEN Outcome("NotFoundError", emps, entries, seq)
    ELSE IF name # None /\ Strip(The(name)) = <<>>
    THEN Outcome("ValidationError", emps, entries, seq)
    ELSE IF hourly_rate # None /\ The(hourly_rate) < 0
    THEN Outcome("ValidationError", emps, entries, seq)
    ELSE IF dependents # None /\ The(dependents) < 0
    THEN Outcome("ValidationError", emps, entries, seq)
    ELSE IF name = None /\ hourly_rate = None /\ dependents = None
    THEN Outcome("ValidationError", emps, entries, seq)
    ELSE Outcome("ok",
                 { IF r.id = employee_id
                   THEN UpdatedRow(r, name, hourly_rate, dependents)
                   ELSE r : r \in emps },
                 entries, seq)

DeleteEmployee(emps, entries, seq, employee_id) ==
    Outcome("ok", DeleteFromEmployees(emps, employee_id),
            CascadeTimeEntries(entries, employee_id), seq)

\* SELECT * FROM employees ORDER BY id
RECURSIVE OrderById(_)
OrderById(rows) ==
    IF rows = {} THEN <<>>
    ELSE LET first == CHOOSE r \in rows : \A o \in rows \ {r} : ~TextLess(o.id, r.id)
         IN  <<first>> \o OrderById(rows \ {first})

RECURSIVE Reverse(_)
Reverse(seq) == IF seq = <<>> THEN <<>> ELSE Reverse(Tail(seq)) \o <<Head(seq)>>

\* variant: ORDER BY id DESC
ListEmployeesDescending(emps) == Reverse(OrderById(emps))

ListEmployees(emps) == OrderById(emps)

(***************************************************************************)
(* TimeTracker                                                             *)
(***************************************************************************)
overtime_threshold == 40

Min(a, b) == IF a <= b THEN a ELSE b

Max(a, b) == IF a >= b THEN a ELSE b

\* variant: the regular hours are not capped at the threshold
RegularHoursUncapped(hours_worked) == hours_worked

\* reg_hours and ot_hours of record_hours
RegularHours(hours_worked) == Min(hours_worked, overtime_threshold)

OvertimeHours(hours_worked) == Max(0, hours_worked - overtime_threshold)

\* entry_id INTEGER PRIMARY KEY AUTOINCREMENT: one more than the largest id ever used
NextEntryId(seq) == seq + 1

\* variant: negative hours are not rejected
NegativeHoursAccepted(hours_worked) == FALSE

\* if hours_worked < 0: raise
NegativeHours(hours_worked) == hours_worked < 0

\* variant: the existence check always passes
EmployeeExistsAlways(emps, employee_id) == TRUE

\* variant: the check reads a private copy of the table that is never refreshed
EmployeeExistsNever(emps, employee_id) == FALSE

\* SELECT 1 FROM employees WHERE id = ? ; fetchone() is not None
EmployeeExists(emps, employee_id) == \E r \in emps : r.id = employee_id

\* variant: INSERT OR REPLACE keyed by (employee_id, entry_date)
RecordHoursUpsert(emps, entries, seq, employee_id, hours_worked, entry_date, today) ==
    IF NegativeHours(hours_worked) THEN Outcome("ValidationError", emps, entries, seq)
    ELSE IF ~EmployeeExists(emps, employee_id)
    THEN Outcome("ReferenceError", emps, entries, seq)
    ELSE LET date == IF entry_date = None THEN today ELSE The(entry_date)
             row  == TimeEntryRow(NextEntryId(seq), employee_id, date,
                                  RegularHours(hours_worked), OvertimeHours(hours_worked))
             kept == { e \in entries : ~(e.employee_id = employee_id /\ e.entry_date = date) }
         IN  Outcome("ok", emps, kept \cup {row}, NextEntryId(seq))

RecordHours(emps, entries, seq, employee_id, hours_worked, entry_date, today) ==
    IF NegativeHours(hours_worked) THEN Outcome("ValidationError", emps, entries, seq)
    ELSE IF ~EmployeeExists(emps, employee_id)
    THEN Outcome("ReferenceError", emps, entries, seq)
    ELSE LET date == IF entry_date = None THEN today ELSE The(entry_date)
             row  == TimeEntryRow(NextEntryId(seq), employee_id, date,
                                  RegularHours(hours_worked), OvertimeHours(hours_worked))
         IN  IF ~TimeEntriesConstraint(emps, entries, row)
             THEN Outcome("IntegrityError", emps, entries, seq)
             ELSE Outcome("ok", emps, entries \cup {row}, NextEntryId(seq))

\* SELECT * FROM time_entries WHERE employee_id = ?
EntriesOf(entries, employee_id) == { e \in entries : e.employee_id = employee_id }

\* ORDER BY entry_date (rows of one date in rowid order)
RECURSIVE OrderByDate(_)
OrderByDate(rows) ==
    IF rows = {} THEN <<>>
    ELSE LET first == CHOOSE r \in rows : \A o \in rows \ {r} :
                          \/ r.entry_date < o.entry_date
                          \/ r.entry_date = o.entry_date /\ r.entry_id < o.entry_id
         IN  <<first>> \o OrderByDate(rows \ {first})

GetTimeEntries(entries, employee_id) == OrderByDate(EntriesOf(entries, employee_id))

\* SUM(column) over a set of rows; SUM over no rows is NULL, which `or 0.0` turns into 0
RECURSIVE SumRegular(_)
SumRegular(rows) ==
    IF rows = {} THEN 0
    ELSE LET r == CHOOSE x \in rows : TRUE IN r.regular_hours + SumRegular(rows \ {r})

RECURSIVE SumOvertime(_)
SumOvertime(rows) ==
    IF rows = {} THEN 0
    ELSE LET r == CHOOSE x \in rows : TRUE IN r.overtime_hours + SumOvertime(rows \ {r})

\* variant: the combined total is split against the threshold
SummariseHoursCombined(entries, employee_id) ==
    LET total == SumRegular(EntriesOf(entries, employee_id))
                 + SumOvertime(EntriesOf(entries, employee_id))
    IN  [regular_sum  |-> Min(total, overtime_threshold),
         overtime_sum |-> Max(0, total - overtime_threshold)]

SummariseHours(entries, employee_id) ==
    [regular_sum  |-> SumRegular(EntriesOf(entries, employee_id)),
     overtime_sum |-> SumOvertime(EntriesOf(entries, employee_id))]

(***************************************************************************)
(* PayrollCalculator.  The rates are held as exact fractions:              *)
(* STATE_TAX_RATE = 56/1000, FEDERAL_TAX_RATE = 79/1000 and                *)
(* OVERTIME_MULTIPLIER = 3/2.                                              *)
(***************************************************************************)
\* 0.056, in thousandths
STATE_TAX_RATE == 56

\* 0.079, in thousandths
FEDERAL_TAX_RATE == 79

\* 1.5, in halves
OVERTIME_MULTIPLIER == 3

\* units of unrounded money in one cent
MoneyScale == 2 * 1000

\* variant: overtime hours are paid at the plain rate
GrossPayFlat(reg_hours, ot_hours, hourly_rate) ==
    ((reg_hours + ot_hours) * hourly_rate) * MoneyScale

\* (reg_hours * hourly_rate) + (ot_hours * hourly_rate * OVERTIME_MULTIPLIER)
GrossPay(reg_hours, ot_hours, hourly_rate) ==
    (reg_hours * hourly_rate) * MoneyScale
    + (ot_hours * hourly_rate * OVERTIME_MULTIPLIER) * (MoneyScale \div 2)

\* gross * STATE_TAX_RATE, gross * FEDERAL_TAX_RATE
Tax(gross, rate) == (gross \div 1000) * rate

\* round(x, 2) of a non-negative amount, in cents.  A float that is not a
\* decimal midpoint rounds to the nearest cent; at a midpoint (x.xx5 exactly)
\* the binary64 product lies just below or just above it, and `up` says which.
Round2(amount, up) ==
    LET cents == amount \div MoneyScale
        rest  == amount % MoneyScale
    IN  IF 2 * rest > MoneyScale THEN cents + 1
        ELSE IF 2 * rest < MoneyScale THEN cents
        ELSE IF up THEN cents + 1 ELSE cents

\* variant: the federal tax is not deducted
NetPayWithoutFederal(gross, state_tax, federal_tax) == gross - state_tax

\* net = gross - state_tax - federal_tax
NetPay(gross, state_tax, federal_tax) == gross - state_tax - federal_tax

MoneyFields == { "gross_pay", "state_tax", "federal_tax", "net_pay" }

\* variant: the federal tax is lowered by one hundredth per dependent
PayResultPerDependent(employee_id, row, summary, ties) ==
    LET reg_hours   == summary.regular_sum
        ot_hours    == summary.overtime_sum
        gross       == GrossPay(reg_hours, ot_hours, row.hourly_rate)
        state_tax   == Tax(gross, STATE_TAX_RATE)
        federal_tax == (Tax(gross, FEDERAL_TAX_RATE) \div 100) * (100 - row.dependents)
        net         == NetPay(gross, state_tax, federal_tax)
    IN  [employee_id    |-> employee_id,
         name           |-> row.name,
         hours_worked   |-> reg_hours + ot_hours,
         hourly_rate    |-> row.hourly_rate,
         regular_hours  |-> reg_hours,
         overtime_hours |-> ot_hours,
         gross_pay      |-> Round2(gross, ties["gross_pay"]),
         state_tax      |-> Round2(state_tax, ties["state_tax"]),
         federal_tax    |-> Round2(federal_tax, ties["federal_tax"]),
         net_pay        |-> Round2(net, ties["net_pay"])]

PayResult(employee_id, row, summary, ties) ==
    LET reg_hours   == summary.regular_sum
        ot_hours    == summary.overtime_sum
        gross       == GrossPay(reg_hours, ot_hours, row.hourly_rate)
        state_tax   == Tax(gross, STATE_TAX_RATE)
        federal_tax == Tax(gross, FEDERAL_TAX_RATE)
        net         == NetPay(gross, state_tax, federal_tax)
    IN  [employee_id    |-> employee_id,
         name           |-> row.name,
         hours_worked   |-> reg_hours + ot_hours,
         hourly_rate    |-> row.hourly_rate,
         regular_hours  |-> reg_hours,
         overtime_hours |-> ot_hours,
         gross_pay      |-> Round2(gross, ties["gross_pay"]),
         state_tax      |-> Round2(state_tax, ties["state_tax"]),
         federal_tax    |-> Round2(federal_tax, ties["federal_tax"]),
         net_pay        |-> Round2(net, ties["net_pay"])]

\* the call's outcome and, when it returns, the PayResult
CalculateEmployeePay(emps, entries, employee_id, ties) ==
    IF SelectEmployee(emps, employee_id) = None
    THEN [outcome |-> "NotFoundError", value |-> <<>>]
    ELSE [outcome |-> "ok",
          value   |-> << PayResult(employee_id, The(SelectEmployee(emps, employee_id)),
                                   SummariseHours(entries, employee_id), ties) >>]

\* the loop of calculate_all over the listed rows; the first error ends the call
RECURSIVE CalculateRows(_, _, _, _)
CalculateRows(rows, emps, entries, ties) ==
    IF rows = <<>> THEN [outcome |-> "ok", value |-> <<>>]
    ELSE LET one  == CalculateEmployeePay(emps, entries, Head(rows).id, ties)
             rest == CalculateRows(Tail(rows), emps, entries, ties)
         IN  IF one.outcome # "ok" THEN [outcome |-> one.outcome, value |-> <<>>]
             ELSE IF rest.outcome # "ok" THEN rest
             ELSE [outcome |-> "ok", value |-> one.value \o rest.value]

CalculateAll(emps, entries, ties) ==
    CalculateRows(ListEmployees(emps), emps, entries, ties)

(***************************************************************************)
(* The state machine.  One database file; every call is one committed      *)
(* transaction.  `last` records the latest call: the method, its           *)
(* employee_id argument as passed, its outcome, and the rows or results it *)
(* returned (a sequence; empty for None and for methods returning None).   *)
(***************************************************************************)
Call(op, employee_id, outcome, value) ==
    [op |-> op, id |-> employee_id, outcome |-> outcome, value |-> value]

\* The objects that may be used at the same time, each with its own
\* connection to the database file: two EmployeeDatabase objects, a
\* TimeTracker and a PayrollCalculator.
Stores == { "store1", "store2" }

Actors == Stores \cup { "tracker", "payroll" }

\* A call in flight: the method, its employee_id argument, the values it
\* holds (the row to insert; the hours and the date; the row looked up), the
\* listed rows still to be calculated and the results appended so far.
InFlight(op, employee_id, args, rows, results) ==
    [op |-> op, id |-> employee_id, args |-> args, rows |-> rows, results |-> results]

Idle == InFlight("idle", <<>>, <<>>, <<>>, <<>>)

Init ==
    /\ employees = {}
    /\ time_entries = {}
    /\ entry_seq = 0
    /\ last = Call("init", <<>>, "ok", <<>>)
    /\ pc = [a \in Actors |-> Idle]
    /\ reserved = None

\* a call made while no other call is in flight: every statement of the
\* method and its commit
Commit(r) ==
    /\ employees' = r.employees
    /\ time_entries' = r.time_entries
    /\ entry_seq' = r.entry_seq
    /\ UNCHANGED <<pc, reserved>>

Tables == <<employees, time_entries, entry_seq>>

add_employee(employee_id, name, hourly_rate, dependents) ==
    LET r == AddEmployee(employees, time_entries, entry_seq,
                         employee_id, name, hourly_rate, dependents)
    IN  /\ Commit(r)
        /\ last' = Call("add_employee", employee_id, r.outcome, <<>>)

\* dependents: int = 0
DefaultDependents == 0

add_employee_default(employee_id, name, hourly_rate) ==
    add_employee(employee_id, name, hourly_rate, DefaultDependents)

get_employee(employee_id) ==
    /\ last' = Call("get_employee", employee_id, "ok",
                    IF SelectEmployee(employees, employee_id) = None THEN <<>>
                    ELSE << The(SelectEmployee(employees, employee_id)) >>)
    /\ UNCHANGED <<Tables, pc, reserved>>

update_employee(employee_id, name, hourly_rate, dependents) ==
    LET r == UpdateEmployee(employees, time_entries, entry_seq,
                            employee_id, name, hourly_rate, dependents)
    IN  /\ Commit(r)
        /\ last' = Call("update_employee", employee_id, r.outcome, <<>>)

delete_employee(employee_id) ==
    LET r == DeleteEmployee(employees, time_entries, entry_seq, employee_id)
    IN  /\ Commit(r)
        /\ last' = Call("delete_employee", employee_id, r.outcome, <<>>)

list_employees ==
    /\ last' = Call("list_employees", <<>>, "ok", ListEmployees(employees))
    /\ UNCHANGED <<Tables, pc, reserved>>

record_hours(employee_id, hours_worked, entry_date, today) ==
    LET r == RecordHours(employees, time_entries, entry_seq,
                         employee_id, hours_worked, entry_date, today)
    IN  /\ r.outcome = "ok" => entry_seq < MaxEntries
        /\ Commit(r)
        /\ last' = Call("record_hours", employee_id, r.outcome, <<>>)

get_time_entries(employee_id) ==
    /\ last' = Call("get_time_entries", employee_id, "ok",
                    GetTimeEntries(time_entries, employee_id))
    /\ UNCHANGED <<Tables, pc, reserved>>

summarise_hours(employee_id) ==
    /\ last' = Call("summarise_hours", employee_id, "ok",
                    << SummariseHours(time_entries, employee_id) >>)
    /\ UNCHANGED <<Tables, pc, reserved>>

calculate_employee_pay(employee_id, ties) ==
    LET r == CalculateEmployeePay(employees, time_entries, employee_id, ties)
    IN  /\ last' = Call("calculate_employee_pay", employee_id, r.outcome, r.value)
        /\ UNCHANGED <<Tables, pc, reserved>>

calculate_all(ties) ==
    LET r == CalculateAll(employees, time_entries, ties)
    IN  /\ last' = Call("calculate_all", <<>>, r.outcome, r.value)
        /\ UNCHANGED <<Tables, pc, reserved>>

Optional(S) == { None } \cup { Some(v) : v \in S }

Ties == [MoneyFields -> BOOLEAN]

Next ==
    \/ \E id \in IdInputs, name \in NameInputs, rate \in RateInputs,
          deps \in DependentsInputs : add_employee(id, name, rate, deps)
    \/ \E id \in IdInputs, name \in NameInputs, rate \in RateInputs :
          add_employee_default(id, name, rate)
    \/ \E id \in IdInputs : get_employee(id)
    \/ \E id \in IdInputs, name \in Optional(NameInputs), rate \in Optional(RateInputs),
          deps \in Optional(DependentsInputs) : update_employee(id, name, rate, deps)
    \/ \E id \in IdInputs : delete_employee(id)
    \/ list_employees
    \/ \E id \in IdInputs, hours \in HoursInputs, date \in Optional(Dates),
          today \in Dates : record_hours(id, hours, date, today)
    \/ \E id \in IdInputs : get_time_entries(id)
    \/ \E id \in IdInputs : summarise_hours(id)

Spec == Init /\ [][Next]_vars

\* The employee store on its own: every call of EmployeeDatabase, valid or not
NextStore ==
    \/ \E id \in IdInputs, name \in NameInputs, rate \in RateInputs,
          deps \in DependentsInputs : add_employee(id, name, rate, deps)
    \/ \E id \in IdInputs, name \in NameInputs, rate \in RateInputs :
          add_employee_default(id, name, rate)
    \/ \E id \in IdInputs : get_employee(id)
    \/ \E id \in IdInputs, name \in Optional(NameInputs), rate \in Optional(RateInputs),
          deps \in Optional(DependentsInputs) : update_employee(id, name, rate, deps)
    \/ \E id \in IdInputs : delete_employee(id)
    \/ list_employees

SpecStore == Init /\ [][NextStore]_vars

NextPay ==
    \/ \E id \in PayIdInputs, name \in PayNameInputs, rate \in PayRateInputs :
          add_employee_default(id, name, rate)
    \/ \E id \in PayIdInputs : delete_employee(id)
    \/ \E id \in PayIdInputs, hours \in PayHoursInputs, date \in Optional(Dates),
          today \in Dates : record_hours(id, hours, date, today)
    \/ \E id \in PayIdInputs : summarise_hours(id)
    \/ \E id \in PayIdInputs, ties \in Ties : calculate_employee_pay(id, ties)
    \/ \E ties \in Ties : calculate_all(ties)

SpecPay == Init /\ [][NextPay]_vars

\* Recording and summing hours of employees whose record is added, updated
\* and deleted meanwhile.
NextHours ==
    \/ \E id \in PayIdInputs, name \in PayNameInputs, rate \in PayRateInputs :
          add_employee_default(id, name, rate)
    \/ \E id \in PayIdInputs, name \in Optional(PayNameInputs),
          rate \in Optional(PayRateInputs) : update_employee(id, name, rate, None)
    \/ \E id \in PayIdInputs : delete_employee(id)
    \/ \E id \in PayIdInputs, hours \in SumHoursInputs, date \in Optional(Dates),
          today \in Dates : record_hours(id, hours, date, today)
    \/ \E id \in PayIdInputs : get_time_entries(id)
    \/ \E id \in PayIdInputs : summarise_hours(id)

SpecHours == Init /\ [][NextHours]_vars

\* Pay of employees whose dependents are given to add_employee and changed
\* by update_employee
NextDeps ==
    \/ \E id \in PayIdInputs, name \in PayNameInputs, rate \in PayRateInputs,
          deps \in PayDependentsInputs : add_employee(id, name, rate, deps)
    \/ \E id \in PayIdInputs, deps \in PayDependentsInputs :
          update_employee(id, None, None, Some(deps))
    \/ \E id \in PayIdInputs, hours \in DepsHoursInputs, date \in Optional(Dates),
          today \in Dates : record_hours(id, hours, date, today)
    \/ \E id \in PayIdInputs, ties \in Ties : calculate_employee_pay(id, ties)

SpecDeps == Init /\ [][NextDeps]_vars

(***************************************************************************)
(* Calls that overlap.  A method is a sequence of statements, each executed *)
(* by SQLite on its own; between the pre-check of a method (a SELECT) and   *)
(* its write (INSERT and commit) the other objects may complete statements  *)
(* of theirs.  A write that the engine rejects raises sqlite3.IntegrityError *)
(* out of the method, which has no handler, and leaves the transaction that *)
(* sqlite3 opened for it open: the connection keeps the file's RESERVED     *)
(* lock, and a write of another connection then ends with                   *)
(* sqlite3.OperationalError (database is locked) until the holder commits.  *)
(* Reads are never blocked by that lock.                                    *)
(***************************************************************************)
Returned(actor) == pc' = [pc EXCEPT ![actor] = Idle]

LockedOut(actor) == reserved # None /\ reserved # Some(actor)

\* INSERT INTO employees ... ; commit  (lines 144-149), on the rows stored now
InsertEmployee(emps, row) ==
    IF EmployeesConstraint(emps, row)
    THEN [outcome |-> "ok", employees |-> emps \cup {row}]
    ELSE [outcome |-> "IntegrityError", employees |-> emps]

\* INSERT INTO time_entries ... ; commit  (lines 261-266), on the rows stored now
InsertTimeEntry(emps, entries, seq, employee_id, hours_worked, date) ==
    LET row == TimeEntryRow(NextEntryId(seq), employee_id, date,
                            RegularHours(hours_worked), OvertimeHours(hours_worked))
    IN  IF TimeEntriesConstraint(emps, entries, row)
        THEN Outcome("ok", emps, entries \cup {row}, NextEntryId(seq))
        ELSE Outcome("IntegrityError", emps, entries, seq)

\* add_employee up to and including the duplicate check
add_employee_check(store, employee_id, name, hourly_rate, dependents) ==
    LET r == AddEmployee(employees, time_entries, entry_seq,
                         employee_id, name, hourly_rate, dependents)
    IN  /\ pc[store] = Idle
        /\ IF r.outcome = "ok"
           THEN /\ pc' = [pc EXCEPT ![store] =
                            InFlight("add_employee", employee_id,
                                     << EmployeeRow(Strip(employee_id), Strip(name),
                                                    hourly_rate, dependents) >>,
                                     <<>>, <<>>)]
                /\ UNCHANGED last
           ELSE /\ last' = Call("add_employee", employee_id, r.outcome, <<>>)
                /\ UNCHANGED pc
        /\ UNCHANGED <<Tables, reserved>>

\* add_employee from the INSERT on
add_employee_insert(store) ==
    /\ pc[store].op = "add_employee"
    /\ Returned(store)
    /\ UNCHANGED <<time_entries, entry_seq>>
    /\ IF LockedOut(store)
       THEN /\ last' = Call("add_employee", pc[store].id, "OperationalError", <<>>)
            /\ UNCHANGED <<employees, reserved>>
       ELSE LET r == InsertEmployee(employees, pc[store].args[1])
            IN  /\ employees' = r.employees
                /\ last' = Call("add_employee", pc[store].id, r.outcome, <<>>)
                /\ reserved' = IF r.outcome = "ok" THEN None ELSE Some(store)

\* delete_employee: one statement and its commit
delete_employee_by(store, employee_id) ==
    /\ pc[store] = Idle
    /\ UNCHANGED pc
    /\ IF LockedOut(store)
       THEN /\ last' = Call("delete_employee", employee_id, "OperationalError", <<>>)
            /\ UNCHANGED <<Tables, reserved>>
       ELSE LET r == DeleteEmployee(employees, time_entries, entry_seq, employee_id)
            IN  /\ employees' = r.employees
                /\ time_entries' = r.time_entries
                /\ entry_seq' = r.entry_seq
                /\ last' = Call("delete_employee", employee_id, r.outcome, <<>>)
                /\ reserved' = None

\* record_hours up to and including the existence check
record_hours_check(employee_id, hours_worked, entry_date, today) ==
    LET r == RecordHours(employees, time_entries, entry_seq,
                         employee_id, hours_worked, entry_date, today)
    IN  /\ pc["tracker"] = Idle
        /\ IF r.outcome \in {"ValidationError", "ReferenceError"}
           THEN /\ last' = Call("record_hours", employee_id, r.outcome, <<>>)
                /\ UNCHANGED pc
           ELSE /\ pc' = [pc EXCEPT !["tracker"] =
                            InFlight("record_hours", employee_id,
                                     << hours_worked,
                                        IF entry_date = None THEN today ELSE The(entry_date) >>,
                                     <<>>, <<>>)]
                /\ UNCHANGED last
        /\ UNCHANGED <<Tables, reserved>>

\* record_hours from the INSERT on
record_hours_insert ==
    /\ pc["tracker"].op = "record_hours"
    /\ Returned("tracker")
    /\ IF LockedOut("tracker")
       THEN /\ last' = Call("record_hours", pc["tracker"].id, "OperationalError", <<>>)
            /\ UNCHANGED <<Tables, reserved>>
       ELSE LET r == InsertTimeEntry(employees, time_entries, entry_seq, pc["tracker"].id,
                                     pc["tracker"].args[1], pc["tracker"].args[2])
            IN  /\ r.outcome = "ok" => entry_seq < MaxEntries
                /\ employees' = r.employees
                /\ time_entries' = r.time_entries
                /\ entry_seq' = r.entry_seq
                /\ last' = Call("record_hours", pc["tracker"].id, r.outcome, <<>>)
                /\ reserved' = IF r.outcome = "ok" THEN None ELSE Some("tracker")

\* calculate_all: list_employees()
calculate_all_list ==
    /\ pc["payroll"] = Idle
    /\ IF ListEmployees(employees) = <<>>
       THEN /\ last' = Call("calculate_all", <<>>, "ok", <<>>)
            /\ UNCHANGED pc
       ELSE /\ pc' = [pc EXCEPT !["payroll"] =
                        InFlight("calculate_all", <<>>, <<>>, ListEmployees(employees), <<>>)]
            /\ UNCHANGED last
    /\ UNCHANGED <<Tables, reserved>>

\* calculate_employee_pay of the next listed row: get_employee and the raise
calculate_all_lookup ==
    LET call == pc["payroll"]
        row  == SelectEmployee(employees, Head(call.rows).id)
    IN  /\ call.op = "calculate_all" /\ call.args = <<>>
        /\ IF row = None
           THEN /\ last' = Call("calculate_all", Head(call.rows).id, "NotFoundError", <<>>)
                /\ Returned("payroll")
           ELSE /\ pc' = [pc EXCEPT !["payroll"] =
                            InFlight("calculate_all", Head(call.rows).id, << The(row) >>,
                                     call.rows, call.results)]
                /\ UNCHANGED last
        /\ UNCHANGED <<Tables, reserved>>

\* calculate_employee_pay of that row: summarise_hours, the arithmetic, the append
calculate_all_summarise(ties) ==
    LET call   == pc["payroll"]
        result == PayResult(call.id, call.args[1],
                            SummariseHours(time_entries, call.id), ties)
    IN  /\ call.op = "calculate_all" /\ call.args # <<>>
        /\ IF Tail(call.rows) = <<>>
           THEN /\ last' = Call("calculate_all", <<>>, "ok", call.results \o << result >>)
                /\ Returned("payroll")
           ELSE /\ pc' = [pc EXCEPT !["payroll"] =
                            InFlight("calculate_all", <<>>, <<>>, Tail(call.rows),
                                     call.results \o << result >>)]
                /\ UNCHANGED last
        /\ UNCHANGED <<Tables, reserved>>

NextRace ==
    \/ \E store \in Stores, id \in RaceIdInputs, name \in PayNameInputs,
          rate \in RaceRateInputs :
          add_employee_check(store, id, name, rate, DefaultDependents)
    \/ \E store \in Stores : add_employee_insert(store)
    \/ \E store \in Stores, id \in RaceIdInputs : delete_employee_by(store, id)
    \/ \E id \in RaceIdInputs, hours \in RaceHoursInputs, date \in Optional(Dates),
          today \in Dates : record_hours_check(id, hours, date, today)
    \/ record_hours_insert
    \/ calculate_all_list
    \/ calculate_all_lookup
    \/ \E ties \in Ties : calculate_all_summarise(ties)

SpecRace == Init /\ [][NextRace]_vars

(***************************************************************************)
(* Properties.  A property of a mutating method quantifies over the        *)
(* method's inputs in every reachable state and speaks of the outcome and  *)
(* the tables the call commits; the method's action commits exactly that.  *)
(***************************************************************************)

\* t is s without its leading and trailing whitespace, stated without Strip
IsTrimOf(t, s) ==
    \E i \in 0..Len(s), j \in 0..Len(s) :
        /\ i <= j \/ t = <<>>
        /\ t = SubSeq(s, i + 1, j)
        /\ \A k \in 1..Len(s) : (k <= i \/ k > j) => s[k] \in Whitespace
        /\ t # <<>> => (t[1] \notin Whitespace /\ t[Len(t)] \notin Whitespace)

TrimBySearch(s) ==
    CHOOSE t \in { SubSeq(s, i + 1, j) : i \in 0..Len(s), j \in 0..Len(s) } : IsTrimOf(t, s)

\* the trims of the id and name inputs, computed once
TrimTable == [s \in IdInputs \cup NameInputs \cup RaceIdInputs |-> TrimBySearch(s)]

TrimOf(s) == IF s \in DOMAIN TrimTable THEN TrimTable[s] ELSE TrimBySearch(s)

Stored(employee_id) == \E r \in employees : r.id = employee_id

TablesOf(r) == <<r.employees, r.time_entries, r.entry_seq>>

Abs(n) == IF n < 0 THEN -n ELSE n

\* C1: no stored time entry is orphaned: the employee_id of every stored time
\* entry is the id of a stored employee; and right after delete_employee(id)
\* get_time_entries(id) is empty and summarise_hours(id) is (0, 0).
C1_NoOrphanedTimeEntry ==
    /\ \A e \in time_entries : Stored(e.employee_id)
    /\ last.op = "delete_employee" =>
          /\ GetTimeEntries(time_entries, last.id) = <<>>
          /\ SummariseHours(time_entries, last.id) = [regular_sum |-> 0, overtime_sum |-> 0]

\* C2: for a stored employee and hours_worked >= 0, record_hours succeeds and
\* adds exactly one time entry, of that employee, with
\* regular_hours = min(hours_worked, 40), overtime_hours = hours_worked - regular_hours,
\* regular_hours <= 40 and overtime_hours >= 0; no other entry changes.
C2_RecordHoursSplit ==
    \A id \in PayIdInputs, hours \in PayHoursInputs, date \in Optional(Dates), today \in Dates :
        (Stored(id) /\ hours >= 0) =>
            LET r == RecordHours(employees, time_entries, entry_seq, id, hours, date, today)
                added == r.time_entries \ time_entries
            IN  /\ r.outcome = "ok"
                /\ time_entries \subseteq r.time_entries
                /\ Cardinality(added) = 1
                /\ \A e \in added :
                      /\ e.employee_id = id
                      /\ e.regular_hours = (IF hours < 40 THEN hours ELSE 40)
                      /\ e.overtime_hours = hours - e.regular_hours
                      /\ e.regular_hours + e.overtime_hours = hours
                      /\ e.regular_hours <= 40
                      /\ e.overtime_hours >= 0

\* a second entry has just been recorded, with 40 regular and 10 overtime hours
C2_Witness ==
    /\ last.op = "record_hours" /\ last.outcome = "ok"
    /\ Cardinality(time_entries) = 2
    /\ \E e \in time_entries :
          /\ e.entry_id = entry_seq /\ e.employee_id = last.id
          /\ e.regular_hours = 40 /\ e.overtime_hours = 10

UniqueIds == \A r1 \in employees, r2 \in employees : r1.id = r2.id => r1 = r2

\* C4 as stated: add_employee with an id that, trimmed, is already stored
\* fails with DuplicateKeyError and leaves every record unchanged; no two
\* stored employees share an id.
C4_DuplicateAddRaisesDuplicateKey ==
    [][(last'.op = "add_employee" /\ Stored(TrimOf(last'.id))) =>
          (last'.outcome = "DuplicateKeyError" /\ UNCHANGED Tables /\ UniqueIds')]_vars

\* C4 as amended: add_employee with an id that, trimmed, is already stored
\* fails and leaves every record unchanged; the error is DuplicateKeyError
\* when the name, rate and dependents are valid and ValidationError when one
\* of them is not; no two stored employees share an id.
C4_DuplicateAddRejected ==
    /\ UniqueIds
    /\ \A id \in IdInputs, name \in NameInputs, rate \in RateInputs, deps \in DependentsInputs :
          Stored(TrimOf(id)) =>
              LET r == AddEmployee(employees, time_entries, entry_seq, id, name, rate, deps)
              IN  /\ r.outcome = (IF TrimOf(name) # <<>> /\ rate >= 0 /\ deps >= 0
                                  THEN "DuplicateKeyError" ELSE "ValidationError")
                  /\ TablesOf(r) = Tables

\* a second add_employee of a stored id has just failed, another employee being stored too
C4_Witness ==
    /\ last.op = "add_employee" /\ last.outcome = "DuplicateKeyError"
    /\ Stored(TrimOf(last.id))
    /\ Cardinality(employees) = 2

\* C5: record_hours with hours_worked < 0 fails with ValidationError and
\* commits nothing, whether or not the employee is stored.
C5_NegativeHoursRejected ==
    \A id \in PayIdInputs, hours \in PayHoursInputs, date \in Optional(Dates), today \in Dates :
        hours < 0 =>
            LET r == RecordHours(employees, time_entries, entry_seq, id, hours, date, today)
            IN  /\ r.outcome = "ValidationError"
                /\ TablesOf(r) = Tables

\* negative hours have just been refused for a stored employee that has an entry
C5_Witness ==
    /\ last.op = "record_hours" /\ last.outcome = "ValidationError"
    /\ Stored(last.id)
    /\ EntriesOf(time_entries, last.id) # {}

\* C6: record_hours with hours_worked >= 0 for an id that is not stored when
\* the call is made fails with ReferenceError and commits nothing.
C6_UnknownEmployeeRejected ==
    \A id \in PayIdInputs, hours \in PayHoursInputs, date \in Optional(Dates), today \in Dates :
        (hours >= 0 /\ ~Stored(id)) =>
            LET r == RecordHours(employees, time_entries, entry_seq, id, hours, date, today)
            IN  /\ r.outcome = "ReferenceError"
                /\ TablesOf(r) = Tables

\* hours have just been refused for an employee that was added, had hours
\* recorded and was deleted, while another employee is stored
C6_Witness ==
    /\ last.op = "record_hours" /\ last.outcome = "ReferenceError"
    /\ ~Stored(last.id)
    /\ EntriesOf(time_entries, last.id) # {}
    /\ employees # {}

\* C7: calculate_employee_pay(id) fails with NotFoundError exactly when no
\* employee with that id is stored; it succeeds, with zero hours, for a
\* stored employee without time entries.
C7_NotFoundIffAbsent ==
    /\ \A id \in PayIdInputs, ties \in Ties :
          LET r == CalculateEmployeePay(employees, time_entries, id, ties)
          IN  /\ r.outcome = "NotFoundError" <=> ~Stored(id)
              /\ r.outcome = "ok" <=> Stored(id)
              /\ (Stored(id) /\ EntriesOf(time_entries, id) = {}) =>
                    (r.value[1].hours_worked = 0 /\ r.value[1].gross_pay = 0)
    /\ last.op = "calculate_employee_pay" =>
          /\ last.outcome = "NotFoundError" <=> ~Stored(last.id)
          /\ last.outcome = "ok" <=> Stored(last.id)
          /\ last.outcome = "ok" <=> Len(last.value) = 1

\* the pay of an employee that was added, had hours recorded and was
\* deleted has just been asked for and refused
C7_Witness ==
    /\ last.op = "calculate_employee_pay" /\ last.outcome = "NotFoundError"
    /\ EntriesOf(time_entries, last.id) # {}
    /\ entry_seq > 0

\* the PayResult of the latest calculate_employee_pay, and what it was computed from
LastPay == last.value[1]

LastRow == The(SelectEmployee(employees, last.id))

\* twice the exact gross pay in cents: 2*R*r + 3*O*r
TwiceGross(reg_hours, ot_hours, hourly_rate) ==
    2 * reg_hours * hourly_rate + 3 * ot_hours * hourly_rate

\* C8: for a stored employee with rate r and summed hours (R, O) the result
\* carries r, R and O, and gross_pay, state_tax, federal_tax and net_pay are
\* the cent nearest to R*r + 1.5*O*r, 0.056*gross, 0.079*gross and
\* 0.865*gross, each taken from the unrounded gross; rate 10.00 with one
\* 40-hour entry gives overtime 0 and gross 400.00, with one 50-hour entry
\* regular 40, overtime 10, gross 550.00, taxes 30.80 and 43.45, net 475.75.
C8_PayFormula ==
    (last.op = "calculate_employee_pay" /\ last.outcome = "ok") =>
        LET p == LastPay
            R == SumRegular(EntriesOf(time_entries, last.id))
            O == SumOvertime(EntriesOf(time_entries, last.id))
            r == LastRow.hourly_rate
            g == TwiceGross(R, O, r)
        IN  /\ p.employee_id = last.id /\ p.name = LastRow.name
            /\ p.hourly_rate = r /\ p.regular_hours = R /\ p.overtime_hours = O
            /\ p.hours_worked = R + O
            /\ Abs(2 * p.gross_pay - g) <= 1
            /\ Abs(2000 * p.state_tax - 56 * g) <= 1000
            /\ Abs(2000 * p.federal_tax - 79 * g) <= 1000
            /\ Abs(2000 * p.net_pay - 865 * g) <= 1000
            /\ (r = 1000 /\ R = 40 /\ O = 0) => p.gross_pay = 40000
            /\ (r = 1000 /\ R = 40 /\ O = 10) =>
                  /\ p.gross_pay = 55000 /\ p.state_tax = 3080
                  /\ p.federal_tax = 4345 /\ p.net_pay = 47575

\* the pay of rate 10.00 and one 50-hour entry has just been calculated
C8_Witness ==
    /\ last.op = "calculate_employee_pay" /\ last.outcome = "ok"
    /\ Cardinality(EntriesOf(time_entries, last.id)) = 1
    /\ LastPay.hourly_rate = 1000
    /\ LastPay.regular_hours = 40 /\ LastPay.overtime_hours = 10
    /\ LastPay.net_pay = 47575

\* C9 as stated: the rounded fields of every PayResult satisfy
\* net_pay = gross_pay - state_tax - federal_tax.
C9_NetIsGrossMinusTaxes ==
    (last.op = "calculate_employee_pay" /\ last.outcome = "ok") =>
        LastPay.net_pay = LastPay.gross_pay - LastPay.state_tax - LastPay.federal_tax

\* C9 as amended: the rounded net_pay differs from
\* gross_pay - state_tax - federal_tax, taken on the rounded fields, by at
\* most one cent.
C9_NetWithinOneCent ==
    (last.op = "calculate_employee_pay" /\ last.outcome = "ok") =>
        Abs(LastPay.net_pay
            - (LastPay.gross_pay - LastPay.state_tax - LastPay.federal_tax)) <= 1

\* a PayResult whose rounded fields do not add up has just been returned
C9_Witness ==
    /\ last.op = "calculate_employee_pay" /\ last.outcome = "ok"
    /\ LastPay.gross_pay > 0
    /\ LastPay.net_pay # LastPay.gross_pay - LastPay.state_tax - LastPay.federal_tax

\* C10: calculate_all returns one PayResult per stored employee, in
\* ascending order of id, the i-th being what calculate_employee_pay returns
\* for the i-th id of list_employees; with no employee it returns <<>>.
C10_CalculateAllMatches ==
    last.op = "calculate_all" =>
        /\ last.outcome = "ok"
        /\ Len(last.value) = Cardinality(employees)
        /\ employees = {} => last.value = <<>>
        /\ { p.employee_id : p \in { last.value[i] : i \in 1..Len(last.value) } }
              = { r.id : r \in employees }
        /\ \A i \in 1..Len(last.value), j \in 1..Len(last.value) :
              i < j => TextLess(last.value[i].employee_id, last.value[j].employee_id)
        /\ \A i \in 1..Len(last.value) :
              last.value[i].employee_id = ListEmployees(employees)[i].id
        /\ \E ties \in Ties : \A i \in 1..Len(last.value) :
              <<last.value[i]>> =
                  CalculateEmployeePay(employees, time_entries,
                                       last.value[i].employee_id, ties).value

\* the pay of two employees with different hours has just been calculated, a before b
C10_Witness ==
    /\ last.op = "calculate_all" /\ last.outcome = "ok"
    /\ Len(last.value) = 2
    /\ last.value[1].employee_id = <<"a">> /\ last.value[2].employee_id = <<"b">>
    /\ last.value[1].gross_pay # last.value[2].gross_pay

\* the hours of the entries numbered 1..n that belong to employee_id
RECURSIVE RegularTotalUpTo(_, _)
RegularTotalUpTo(n, employee_id) ==
    IF n = 0 THEN 0
    ELSE RegularTotalUpTo(n - 1, employee_id)
         + (IF \E e \in time_entries : e.entry_id = n /\ e.employee_id = employee_id
            THEN (CHOOSE e \in time_entries : e.entry_id = n).regular_hours ELSE 0)

RECURSIVE OvertimeTotalUpTo(_, _)
OvertimeTotalUpTo(n, employee_id) ==
    IF n = 0 THEN 0
    ELSE OvertimeTotalUpTo(n - 1, employee_id)
         + (IF \E e \in time_entries : e.entry_id = n /\ e.employee_id = employee_id
            THEN (CHOOSE e \in time_entries : e.entry_id = n).overtime_hours ELSE 0)

\* the multiset of hours recorded in the stored entries of employee_id is {h1, h2}
EntriesAre(employee_id, h1, h2) ==
    \E e1 \in time_entries, e2 \in time_entries :
        /\ e1 # e2
        /\ EntriesOf(time_entries, employee_id) = {e1, e2}
        /\ e1.regular_hours + e1.overtime_hours = h1
        /\ e2.regular_hours + e2.overtime_hours = h2

\* C11: summarise_hours(id) never fails and returns the sums of regular_hours
\* and of overtime_hours over exactly the stored entries of id, (0, 0) when
\* there are none; each recording being split on its own, two recordings of
\* 25 hours give (50, 0) and recordings of 38 and 5 hours give (43, 0).
C11_SummariseSumsEntries ==
    /\ \A id \in PayIdInputs :
          LET s == SummariseHours(time_entries, id)
          IN  /\ s.regular_sum = RegularTotalUpTo(entry_seq, id)
              /\ s.overtime_sum = OvertimeTotalUpTo(entry_seq, id)
              /\ EntriesOf(time_entries, id) = {} => (s.regular_sum = 0 /\ s.overtime_sum = 0)
              /\ EntriesAre(id, 25, 25) => (s.regular_sum = 50 /\ s.overtime_sum = 0)
              /\ EntriesAre(id, 38, 5) => (s.regular_sum = 43 /\ s.overtime_sum = 0)
    /\ last.op = "summarise_hours" =>
          /\ last.outcome = "ok"
          /\ last.value = << [regular_sum  |-> RegularTotalUpTo(entry_seq, last.id),
                              overtime_sum |-> OvertimeTotalUpTo(entry_seq, last.id)] >>

\* the hours of an employee with two recordings of 25 hours have just been summed
C11_Witness ==
    /\ last.op = "summarise_hours" /\ last.outcome = "ok"
    /\ EntriesAre(last.id, 25, 25)
    /\ last.value[1].regular_sum = 50 /\ last.value[1].overtime_sum = 0

\* the fields of an update_employee call that fail its checks
InvalidUpdate(name, hourly_rate, dependents) ==
    \/ name # None /\ TrimOf(The(name)) = <<>>
    \/ hourly_rate # None /\ The(hourly_rate) < 0
    \/ dependents # None /\ The(dependents) < 0

NoUpdate(name, hourly_rate, dependents) ==
    name = None /\ hourly_rate = None /\ dependents = None

\* C12: update_employee fails with NotFoundError when the id is not stored,
\* whatever the fields; for a stored id it fails with ValidationError when no
\* field is supplied or a supplied field is invalid (name empty once trimmed,
\* rate < 0, dependents < 0), even if other supplied fields are valid; a
\* failing call changes nothing.
C12_UpdateFailures ==
    \A id \in IdInputs, name \in Optional(NameInputs), rate \in Optional(RateInputs),
       deps \in Optional(DependentsInputs) :
        LET r == UpdateEmployee(employees, time_entries, entry_seq, id, name, rate, deps)
        IN  /\ ~Stored(id) => r.outcome = "NotFoundError"
            /\ (Stored(id) /\ (NoUpdate(name, rate, deps) \/ InvalidUpdate(name, rate, deps)))
                  => r.outcome = "ValidationError"
            /\ r.outcome \in {"ok", "NotFoundError", "ValidationError"}
            /\ r.outcome # "ok" => TablesOf(r) = Tables

\* an update of a stored employee has just been refused, two employees
\* being stored, one of them updated before
C12_Witness ==
    /\ last.op = "update_employee" /\ last.outcome = "ValidationError"
    /\ Stored(last.id)
    /\ Cardinality(employees) = 2
    /\ \E e \in employees : e.id = last.id /\ e.name = <<"x">> /\ e.dependents = 1

\* C13: a successful update_employee sets exactly the supplied fields of the
\* employee (the name trimmed) and leaves its id, its other fields, every
\* other employee and every time entry unchanged.
C13_UpdateFrame ==
    \A id \in IdInputs, name \in Optional(NameInputs), rate \in Optional(RateInputs),
       deps \in Optional(DependentsInputs) :
        LET r == UpdateEmployee(employees, time_entries, entry_seq, id, name, rate, deps)
        IN  r.outcome = "ok" =>
              /\ Stored(id)
              /\ { e.id : e \in r.employees } = { e.id : e \in employees }
              /\ Cardinality(r.employees) = Cardinality(employees)
              /\ \A old \in employees :
                    old.id # id => old \in r.employees
              /\ \A old \in employees, new \in r.employees :
                    (old.id = id /\ new.id = id) =>
                        /\ new.name = (IF name = None THEN old.name ELSE TrimOf(The(name)))
                        /\ new.hourly_rate =
                              (IF rate = None THEN old.hourly_rate ELSE The(rate))
                        /\ new.dependents =
                              (IF deps = None THEN old.dependents ELSE The(deps))
              /\ r.time_entries = time_entries
              /\ r.entry_seq = entry_seq

\* an update has just given an employee, one of two, the trimmed name "x",
\* the rate 0 and one dependent, a time entry being stored
C13_Witness ==
    /\ last.op = "update_employee" /\ last.outcome = "ok"
    /\ Cardinality(employees) = 2
    /\ time_entries # {}
    /\ \E e \in employees :
          e.id = last.id /\ e.name = <<"x">> /\ e.hourly_rate = 0 /\ e.dependents = 1

\* C14: delete_employee of an id that is not stored raises nothing and changes
\* nothing; deleting twice leaves what deleting once leaves; and no delete
\* changes another employee or a time entry of another employee.
C14_DeleteIdempotent ==
    \A id \in IdInputs :
        LET once  == DeleteEmployee(employees, time_entries, entry_seq, id)
            twice == DeleteEmployee(once.employees, once.time_entries, once.entry_seq, id)
        IN  /\ once.outcome = "ok" /\ twice.outcome = "ok"
            /\ ~Stored(id) => TablesOf(once) = Tables
            /\ TablesOf(twice) = TablesOf(once)
            /\ { e \in once.employees : e.id # id } = { e \in employees : e.id # id }
            /\ { t \in once.time_entries : t.employee_id # id }
                  = { t \in time_entries : t.employee_id # id }

\* an employee that is not stored has just been deleted, another employee
\* that has a time entry being stored
C14_Witness ==
    /\ last.op = "delete_employee" /\ last.outcome = "ok"
    /\ ~Stored(last.id)
    /\ \E e \in employees : EntriesOf(time_entries, e.id) # {}

\* C17: every stored employee has a non-empty id without leading or trailing
\* whitespace, a non-empty trimmed name, hourly_rate >= 0 and dependents >= 0;
\* add_employee with an id or a name that is empty once trimmed, a negative
\* rate or negative dependents fails with ValidationError and stores nothing.
C17_StoredEmployeesValid ==
    /\ \A e \in employees :
          /\ e.id # <<>> /\ e.id[1] \notin Whitespace /\ e.id[Len(e.id)] \notin Whitespace
          /\ e.name # <<>> /\ e.name[1] \notin Whitespace
          /\ e.name[Len(e.name)] \notin Whitespace
          /\ e.hourly_rate >= 0
          /\ e.dependents >= 0
    /\ \A id \in IdInputs, name \in NameInputs, rate \in RateInputs, deps \in DependentsInputs :
          (TrimOf(id) = <<>> \/ TrimOf(name) = <<>> \/ rate < 0 \/ deps < 0) =>
              LET r == AddEmployee(employees, time_entries, entry_seq, id, name, rate, deps)
              IN  r.outcome = "ValidationError" /\ TablesOf(r) = Tables

\* an add_employee has just been refused as invalid after valid and invalid
\* adds and updates, two employees being stored
C17_Witness ==
    /\ last.op = "add_employee" /\ last.outcome = "ValidationError"
    /\ Cardinality(employees) = 2
    /\ \E e \in employees : e.name = <<"x">> /\ e.dependents = 1

\* C16: a stored time entry is never changed or merged: every step keeps every
\* stored entry as it is, unless the step is delete_employee of the entry's
\* own employee; entries appear only by record_hours, one per successful call,
\* also for an employee and a date that already have an entry.
C16_TimeEntriesAppendOnly ==
    [][/\ \A e \in time_entries :
             \/ e \in time_entries'
             \/ last'.op = "delete_employee" /\ last'.id = e.employee_id
       /\ time_entries' \ time_entries # {} =>
             /\ last'.op = "record_hours" /\ last'.outcome = "ok"
             /\ Cardinality(time_entries') = Cardinality(time_entries) + 1
             /\ \A n \in time_entries' \ time_entries, e \in time_entries :
                   n.entry_id # e.entry_id]_vars

\* a second entry of the same employee and the same date has just been
\* recorded and the first is still stored, with different hours
C16_Witness ==
    /\ last.op = "record_hours" /\ last.outcome = "ok"
    /\ \E e1 \in time_entries, e2 \in time_entries :
          /\ e1.entry_id < e2.entry_id /\ e2.entry_id = entry_seq
          /\ e1.employee_id = last.id /\ e2.employee_id = last.id
          /\ e1.entry_date = e2.entry_date
          /\ e1.regular_hours # e2.regular_hours

\* C15: when delete_employee(id) commits between the existence check and the
\* INSERT of record_hours(id, h), the INSERT is rejected: a record_hours call
\* that returns normally has inserted an entry of an employee that is stored
\* at that moment.
C15_InsertAfterDeleteRejected ==
    (last.op = "record_hours" /\ last.outcome = "ok") =>
        /\ Stored(last.id)
        /\ \A e \in time_entries : e.entry_id = entry_seq => Stored(e.employee_id)

\* the step is one of the named actor's own
StepOf(actor) == pc'[actor] # pc[actor]

\* the step is the return of the tracker's record_hours from its INSERT
RecordHoursReturns == pc["tracker"].op = "record_hours" /\ StepOf("tracker")

\* C18 as stated: once add_employee(id) has returned normally, and before a
\* delete, record_hours(id, h) with h >= 0 does not fail with ReferenceError.
C18_RecordAfterAddSucceeds ==
    [][(/\ last.op = "add_employee" /\ last.outcome = "ok"
        /\ last'.op = "record_hours" /\ last'.id = last.id)
          => last'.outcome # "ReferenceError"]_vars

\* C18 as amended: what a call has committed when it returns is what every other
\* connection reads.  An employee whose add_employee has returned normally is
\* stored under its trimmed id, and stays stored until a delete_employee of
\* that id; record_hours through the tracker's connection, which looks up
\* the id exactly as given, does not raise ReferenceError for that trimmed id
\* and raises it only for an id that is not stored when it checks; and when record_hours returns normally the
\* new entry is in what summarise_hours and calculate_employee_pay read next.
C18_CommittedWritesVisible ==
    [][/\ \A e \in employees :
             \/ e \in employees'
             \/ last'.op = "delete_employee" /\ last'.id = e.id
       /\ \A store \in Stores :
             (pc[store].op = "add_employee" /\ StepOf(store) /\ last'.outcome = "ok") =>
                 /\ \E e \in employees' : e.id = TrimOf(last'.id)
                 /\ \A hours \in RaceHoursInputs, date \in Optional(Dates), today \in Dates :
                       RecordHours(employees', time_entries', entry_seq', TrimOf(last'.id),
                                   hours, date, today).outcome # "ReferenceError"
       /\ (last' # last /\ last'.op = "record_hours" /\ last'.outcome = "ReferenceError") =>
             ~Stored(last'.id)
       /\ (RecordHoursReturns /\ last'.outcome = "ok") =>
             LET id    == last'.id
                 added == time_entries' \ time_entries
                 was   == SummariseHours(time_entries, id)
                 now   == SummariseHours(time_entries', id)
             IN  /\ Cardinality(added) = 1
                 /\ \A e \in added :
                       /\ e.employee_id = id
                       /\ now.regular_sum = was.regular_sum + e.regular_hours
                       /\ now.overtime_sum = was.overtime_sum + e.overtime_hours
                 /\ \A ties \in Ties :
                       LET pay == CalculateEmployeePay(employees', time_entries', id, ties)
                       IN  pay.outcome = "ok" =>
                             /\ pay.value[1].regular_hours = now.regular_sum
                             /\ pay.value[1].overtime_hours = now.overtime_sum]_vars

\* record_hours has just returned normally for an employee added through
\* one store while an add_employee of the other store is in flight
C18_Witness ==
    /\ last.op = "record_hours" /\ last.outcome = "ok"
    /\ Stored(last.id)
    /\ \E e \in time_entries : e.entry_id = entry_seq /\ e.employee_id = last.id
    /\ \E store \in Stores : pc[store].op = "add_employee"

\* the step is calculate_employee_pay's lookup of the next listed row
CalculateLooksUp ==
    pc["payroll"].op = "calculate_all" /\ pc["payroll"].args = <<>> /\ StepOf("payroll")

\* the step is calculate_employee_pay's summing of the hours and arithmetic
CalculateComputes ==
    pc["payroll"].op = "calculate_all" /\ pc["payroll"].args # <<>> /\ StepOf("payroll")

\* C19 as stated: when a listed employee is deleted before its pay is
\* calculated, calculate_all raises NotFoundError: no PayResult is computed
\* for an employee that is not stored when its pay is computed.
C19_NoResultForAbsentEmployee ==
    [][CalculateComputes => Stored(pc["payroll"].id)]_vars

\* C19 as amended: calculate_all raises NotFoundError exactly when a listed
\* employee is not stored at the get_employee with which
\* calculate_employee_pay begins, and then returns no result; a PayResult is
\* appended only for the row that this lookup found.
C19_NotFoundAtLookup ==
    [][/\ CalculateLooksUp =>
             LET id == Head(pc["payroll"].rows).id
             IN  IF Stored(id)
                 THEN /\ pc'["payroll"].op = "calculate_all"
                      /\ pc'["payroll"].id = id
                      /\ pc'["payroll"].args = << The(SelectEmployee(employees, id)) >>
                      /\ pc'["payroll"].results = pc["payroll"].results
                      /\ UNCHANGED last
                 ELSE /\ pc'["payroll"] = Idle
                      /\ last' = Call("calculate_all", id, "NotFoundError", <<>>)
       /\ CalculateComputes =>
             LET call  == pc["payroll"]
                 after == IF pc'["payroll"] = Idle THEN last'.value
                          ELSE pc'["payroll"].results
             IN  /\ Len(after) = Len(call.results) + 1
                 /\ SubSeq(after, 1, Len(call.results)) = call.results
                 /\ after[Len(after)].employee_id = call.args[1].id
                 /\ after[Len(after)].name = call.args[1].name
                 /\ after[Len(after)].hourly_rate = call.args[1].hourly_rate
                 /\ pc'["payroll"] = Idle => last'.outcome = "ok"
       /\ (StepOf("payroll") /\ ~CalculateLooksUp /\ ~CalculateComputes) =>
             pc'["payroll"].results = <<>>]_vars

\* calculate_all has just raised NotFoundError for an employee deleted after
\* the listing, another employee being stored
C19_Witness ==
    /\ last.op = "calculate_all" /\ last.outcome = "NotFoundError"
    /\ ~Stored(last.id)
    /\ employees # {}
    /\ pc["payroll"] = Idle

\* C20: a write that the engine rejects by a constraint the pre-checks did
\* not catch fails with the error the pre-check would have raised, never
\* with the engine's own error, and the store keeps one record per id.
C20_ConstraintErrorsUseTaxonomy ==
    /\ last.outcome # "IntegrityError"
    /\ UniqueIds

\* the fields of a PayResult that the pay consists of
PayOf(result) ==
    << result.regular_hours, result.overtime_hours, result.gross_pay,
       result.state_tax, result.federal_tax, result.net_pay >>

\* C21: the pay does not depend on dependents.  A run that differs from
\* another only in the dependents given to add_employee (among them the
\* default), or to update_employee, for an employee returns the same hours,
\* gross_pay, state_tax, federal_tax and net_pay from calculate_employee_pay
\* of that employee.
C21_PayIgnoresDependents ==
    \A id \in PayIdInputs, deps \in PayDependentsInputs :
        /\ \A name \in PayNameInputs, rate \in PayRateInputs :
              LET run1 == AddEmployee(employees, time_entries, entry_seq,
                                      id, name, rate, DefaultDependents)
                  run2 == AddEmployee(employees, time_entries, entry_seq,
                                      id, name, rate, deps)
              IN  /\ run1.outcome = run2.outcome
                  /\ \A ties \in Ties :
                        LET pay1 == CalculateEmployeePay(run1.employees, run1.time_entries,
                                                         id, ties)
                            pay2 == CalculateEmployeePay(run2.employees, run2.time_entries,
                                                         id, ties)
                        IN  /\ pay1.outcome = pay2.outcome
                            /\ pay1.outcome = "ok" =>
                                  PayOf(pay1.value[1]) = PayOf(pay2.value[1])
        /\ LET run == UpdateEmployee(employees, time_entries, entry_seq, id,
                                     None, None, Some(deps))
           IN  \A ties \in Ties :
                   LET pay1 == CalculateEmployeePay(employees, time_entries, id, ties)
                       pay2 == CalculateEmployeePay(run.employees, run.time_entries, id, ties)
                   IN  /\ pay1.outcome = pay2.outcome
                       /\ pay1.outcome = "ok" =>
                             PayOf(pay1.value[1]) = PayOf(pay2.value[1])

\* the pay of an employee with two dependents and 38 hours at 18.25 has just
\* been calculated, another employee with the same rate and hours and no
\* dependents being stored
C21_Witness ==
    /\ last.op = "calculate_employee_pay" /\ last.outcome = "ok"
    /\ LastRow.dependents = 2 /\ LastRow.hourly_rate = 1825
    /\ LastPay.regular_hours = 38 /\ LastPay.gross_pay = 69350
    /\ \E e \in employees :
          /\ e.id # last.id /\ e.dependents = 0 /\ e.hourly_rate = 1825
          /\ SummariseHours(time_entries, e.id) = SummariseHours(time_entries, last.id)

\* C22: a freshly added employee starts with no hours, whatever happened
\* before: when add_employee(id, ...) has returned normally, summarise_hours
\* of the stored id is (0, 0) and calculate_employee_pay returns hours 0 and
\* gross_pay 0, also when the id was added, had hours recorded and was
\* deleted before.
C22_FreshEmployeeHasNoHours ==
    (last.op = "add_employee" /\ last.outcome = "ok") =>
        /\ SummariseHours(time_entries, TrimOf(last.id))
              = [regular_sum |-> 0, overtime_sum |-> 0]
        /\ \A ties \in Ties :
              LET pay == CalculateEmployeePay(employees, time_entries, TrimOf(last.id), ties)
              IN  /\ pay.outcome = "ok"
                  /\ pay.value[1].hours_worked = 0
                  /\ pay.value[1].gross_pay = 0

====
